---- MODULE Spec2Model ----
(***************************************************************************)
(* ddc_bright: the display/control state manager of src/display.rs and    *)
(* the value adjustment of src/main.rs.                                    *)
(*                                                                         *)
(* Two threads: the application thread (refresh, load, queue_change) and   *)
(* the worker thread spawned by DisplayManager::new.  Every statement that *)
(* takes a lock, touches the mpsc channel or performs a blocking hardware  *)
(* operation is a step of its own, so that every interleaving of the two   *)
(* threads is a behaviour of the model.                                    *)
(***************************************************************************)
EXTENDS Integers, Sequences, FiniteSets, TLC

(* ------------------------------ bounds -------------------------------- *)
\* number of queue_change calls the application thread makes
MaxCalls == 2
\* number of refresh calls the application thread makes
MaxRefresh == 2

\* the physical monitors Display::enumerate() can yield, in bus order
Monitors == <<"m1", "m2">>
\* what Display::enumerate() may return: no monitor, or both
Enumerations == {<<>>, <<"m1", "m2">>}
\* the VCP value each monitor holds for every control when the program
\* starts: one inside the range 0..100 and one above it
HwValues == ("m1" :> 50) @@ ("m2" :> 200)
\* the deltas handed to queue_change
Deltas == {-200, 70, 32767}
\* number of value adjustments the user makes in the terminal UI
MaxKeys == 2

(* --------------------------- display.rs types ------------------------- *)
\* const ALL_CONTROLS: [Control; 2]
ALL_CONTROLS == <<"BRIGHTNESS", "CONTRAST">>

Control == {ALL_CONTROLS[i] : i \in 1..Len(ALL_CONTROLS)}

\* the bound both clamps use
MaxValue == 100

\* struct Controller { value: u16, kind: Control }
Controller(kind, value) == [kind |-> kind, value |-> value]

\* struct Change { display: WrappedDisplay, controller: Controller }
\* (display is the identity of the MyDisplay object the Arc points to)
Change(display, controller) == [display |-> display, controller |-> controller]

(* ------------------------- 16-bit arithmetic --------------------------- *)
TwoTo15 == 32768
TwoTo16 == 65536

\* `x as i16` for a u16 x
AsI16(x) == IF x >= TwoTo15 THEN x - TwoTo16 ELSE x

\* an i16 addition that the type cannot hold
Overflows(x) == x < -TwoTo15 \/ x > TwoTo15 - 1

\* the two's complement result of an i16 addition (a build without overflow checks)
WrapI16(x) == ((x + TwoTo15) % TwoTo16) - TwoTo15

\* `x as u16` for an i16 x
AsU16(x) == x % TwoTo16

Min(a, b) == IF a < b THEN a ELSE b
Max(a, b) == IF a > b THEN a ELSE b

\* the sum of display.rs:125 before it is clamped
ClampSum(value, delta) == AsI16(value) + delta

\* max(min(control.value as i16 + value, 100), 0) as u16
Clamped(value, delta) == AsU16(Max(Min(WrapI16(ClampSum(value, delta)), MaxValue), 0))

\* the clamp over the integers, the reference the cached value is compared to
IntClamp(value, delta) == Max(Min(value + delta, MaxValue), 0)

(* ------------------------------- state -------------------------------- *)
VARIABLES
    hw,            \* hw[m][k]: the VCP value monitor m holds for control k
    objs,          \* every MyDisplay ever constructed, by identity 1..Len(objs)
    displays,      \* DisplayManager.displays: identities, in push order
    changes,       \* DisplayManager.changes: the Vec<Change>
    changesLock,   \* holder of the Mutex around changes
    changesPoisoned, \* the Mutex around changes was held by a panicking thread
    signals,       \* messages in flight in the mpsc channel
    inflight,      \* inflight[m]: threads inside a hardware operation on m
    appPc,         \* position of the application thread
    appArgs,       \* arguments of the running queue_change
    rfEnum,        \* refresh: displays still to construct
    rfObj,         \* refresh: identity of the display being loaded
    rfCtl,         \* load: index into ALL_CONTROLS
    workerPc,      \* position of the worker thread
    workerChange,  \* the Change the worker removed
    nCalls,        \* queue_change calls started
    nRefresh,      \* refresh calls started
    received,      \* notifications the worker received
    cacheLog,      \* values queue_change stored in a Controller, in order
    pushLog,       \* every Change pushed, in order
    setLog,        \* every MyDisplay::set call of the worker, in order
    resLog,        \* the result of every finished hardware write, in order
    appWrites,     \* hardware writes issued by the application thread
    hwErrors,      \* hardware operations that returned an error
    ctlLock,       \* the Controller whose lock the application thread holds
    rfStart,       \* refresh: the registry and the enumeration it started with
    ui             \* main.rs: the fields of App the key events change

vars == <<hw, objs, displays, changes, changesLock, changesPoisoned, signals,
          inflight, appPc, appArgs, rfEnum, rfObj, rfCtl, workerPc,
          workerChange, nCalls, nRefresh, received, cacheLog, pushLog, setLog,
          resLog, appWrites, hwErrors, ctlLock, rfStart, ui>>

appVars == <<appPc, appArgs, rfEnum, rfObj, rfCtl, nCalls, nRefresh, ctlLock,
             rfStart, ui>>
workerVars == <<workerPc, workerChange, received>>
logVars == <<cacheLog, pushLog, setLog, resLog, appWrites, hwErrors>>

NoChange == [display |-> 0]
NoArgs == [display |-> 0]
\* no Controller guard is held
NoLock == [display |-> 0]

\* the guard of the RwLock (display.rs:77) around Controller k of display d
ControllerGuard(d, k) == [display |-> d, kind |-> k]

\* before the first refresh
NoRefresh == [displays |-> <<>>, found |-> <<>>, objs |-> 0]

\* enum InputMode (main.rs:18-22): Selected carries an Arc of a MyDisplay
InputMode(tag, d) == [tag |-> tag, display |-> d]

\* App::default (main.rs:41-58) and the position of main: "main" before
\* run_app is entered, "run_app" inside its loop, "exited" after it.
\* display_selected is the identity of a MyDisplay, 0 for None;
\* control_selected names a Controller, NoLock for None.
AppDefault ==
    [input_mode |-> InputMode("Select", 0), show_help |-> FALSE,
     display_index |-> 0, display_selected |-> 0, control_index |-> 0,
     control_selected |-> NoLock, at |-> "main"]

MonitorSet == {Monitors[i] : i \in 1..Len(Monitors)}

\* MyDisplay::new: every Controller starts at value 0, the handle unlocked;
\* loaded[k] lists the values load has read from the monitor for k
MyDisplayNew(handle, name) ==
    [handle |-> handle, name |-> name, locked |-> "none", poisoned |-> FALSE,
     dropped |-> FALSE, controls |-> [k \in Control |-> Controller(k, 0)],
     loaded |-> [k \in Control |-> <<>>]]

\* a Vec<Change> whose entries hold no Arc of their MyDisplay
NoArcs(q) == {}

\* the identities the Arcs in a Vec<WrappedDisplay> or Vec<Change> point to
Range(q) == {q[i] : i \in 1..Len(q)}
ChangeDisplays(q) == {q[i].display : i \in 1..Len(q)}

\* the Arcs of MyDisplays that App holds (main.rs:21 and 37)
UiArcs == {ui.display_selected, ui.input_mode.display}

\* Arc<MyDisplay>: a MyDisplay no Arc in `live` points to is dropped, and
\* its Controllers and its Handle with it
Sweep(os, live) ==
    [d \in 1..Len(os) |->
        IF d \in live \/ os[d].dropped
           THEN os[d]
           ELSE [MyDisplayNew(os[d].handle, os[d].name) EXCEPT !.dropped = TRUE]]

\* DisplayManager::new: no displays, no changes, the worker blocked in recv
Init ==
    /\ hw = [m \in MonitorSet |-> [k \in Control |-> HwValues[m]]]
    /\ objs = <<>>
    /\ displays = <<>>
    /\ changes = <<>>
    /\ changesLock = "none"
    /\ changesPoisoned = FALSE
    /\ signals = 0
    /\ inflight = [m \in MonitorSet |-> {}]
    /\ appPc = "idle"
    /\ appArgs = NoArgs
    /\ rfEnum = <<>>
    /\ rfObj = 0
    /\ rfCtl = 0
    /\ workerPc = "recv"
    /\ workerChange = NoChange
    /\ nCalls = 0
    /\ nRefresh = 0
    /\ received = 0
    /\ cacheLog = <<>>
    /\ pushLog = <<>>
    /\ setLog = <<>>
    /\ resLog = <<>>
    /\ appWrites = <<>>
    /\ hwErrors = 0
    /\ ctlLock = NoLock
    /\ rfStart = NoRefresh
    /\ ui = AppDefault

\* the process is gone once the main thread has panicked: the worker takes
\* no further step (every step of the application thread has its own position)
Running == appPc # "panicked"

\* the Receiver lives as long as the worker's closure does
ReceiverAlive == workerPc # "panicked"

(* --------------------- DisplayManager::queue_change -------------------- *)
\* display.rs:117: the notification is sent first
QcSend(d, k, delta) ==
    /\ appPc = "idle"
    /\ nCalls < MaxCalls
    /\ nCalls' = nCalls + 1
    /\ appArgs' = [display |-> d, kind |-> k, value |-> delta]
    /\ signals' = IF ReceiverAlive THEN signals + 1 ELSE signals
    /\ appPc' = "qc_cache"
    /\ UNCHANGED <<hw, objs, displays, changes, changesLock, changesPoisoned,
                   inflight, rfEnum, rfObj, rfCtl, nRefresh>>
    /\ UNCHANGED workerVars
    /\ UNCHANGED <<ctlLock, rfStart, ui>>
    /\ UNCHANGED logVars

\* a queue_change that clamps a copy of the Controller and never stores it
StoreInCopy(d, k, delta) ==
    LET v == Clamped(objs[d].controls[k].value, delta)
    IN /\ objs' = objs
       /\ cacheLog' = Append(cacheLog, Change(d, Controller(k, v)))
       /\ ctlLock' = ControllerGuard(d, k)
       /\ appPc' = "qc_lock"

\* display.rs:124-125 in a build that wraps on overflow
StoreClamped(d, k, delta) ==
    LET v == Clamped(objs[d].controls[k].value, delta)
    IN /\ objs' = [objs EXCEPT ![d].controls[k].value = v]
       /\ cacheLog' = Append(cacheLog, Change(d, Controller(k, v)))
       /\ ctlLock' = ControllerGuard(d, k)
       /\ appPc' = "qc_lock"

\* display.rs:124-125: controller.write(), then the clamped sum is stored.
\* An overflowing i16 addition panics in a build with overflow checks and
\* wraps in one without.
QcCache ==
    /\ appPc = "qc_cache"
    /\ LET d == appArgs.display
           k == appArgs.kind
           sum == ClampSum(objs[d].controls[k].value, appArgs.value)
       IN \/ StoreClamped(d, k, appArgs.value)
          \/ /\ Overflows(sum)
             /\ appPc' = "panicked"
             /\ UNCHANGED <<objs, cacheLog, ctlLock>>
    /\ UNCHANGED <<hw, displays, changes, changesLock, changesPoisoned,
                   signals, inflight, appArgs, rfEnum, rfObj, rfCtl, nCalls,
                   nRefresh, pushLog, setLog, resLog, appWrites, hwErrors>>
    /\ UNCHANGED workerVars
    /\ UNCHANGED <<rfStart, ui>>

\* display.rs:127: self.changes.lock().unwrap(); the panic unwinds through
\* the Controller guard taken at line 124
QcLock ==
    /\ appPc = "qc_lock"
    /\ changesLock = "none"
    /\ IF changesPoisoned
          THEN appPc' = "panicked" /\ ctlLock' = NoLock /\ UNCHANGED changesLock
          ELSE appPc' = "qc_push" /\ changesLock' = "app" /\ UNCHANGED ctlLock
    /\ UNCHANGED <<hw, objs, displays, changes, changesPoisoned, signals,
                   inflight, appArgs, rfEnum, rfObj, rfCtl, nCalls, nRefresh>>
    /\ UNCHANGED workerVars
    /\ UNCHANGED <<rfStart, ui>>
    /\ UNCHANGED logVars

\* the Change of display.rs:128-131: the display and a copy of the Controller
PushedChange(d, k) == Change(d, objs[d].controls[k])

\* display.rs:128-132: push, then the guards of changes and of the
\* Controller are dropped
QcPush ==
    /\ appPc = "qc_push"
    /\ LET c == PushedChange(appArgs.display, appArgs.kind)
       IN /\ changes' = Append(changes, c)
          /\ pushLog' = Append(pushLog, c)
    /\ changesLock' = "none"
    /\ appPc' = "idle"
    /\ appArgs' = NoArgs
    /\ UNCHANGED <<hw, objs, displays, changesPoisoned, signals, inflight,
                   rfEnum, rfObj, rfCtl, nCalls, nRefresh, cacheLog, setLog,
                   resLog, appWrites, hwErrors>>
    /\ UNCHANGED workerVars
    /\ ctlLock' = NoLock
    /\ UNCHANGED <<rfStart, ui>>

(* ------------------------------ worker -------------------------------- *)
\* display.rs:97: receiver.recv()
WRecv ==
    /\ Running
    /\ workerPc = "recv"
    /\ signals > 0
    /\ signals' = signals - 1
    /\ received' = received + 1
    /\ workerPc' = "lock"
    /\ UNCHANGED <<hw, objs, displays, changes, changesLock, changesPoisoned,
                   inflight, workerChange>>
    /\ UNCHANGED appVars
    /\ UNCHANGED logVars

\* display.rs:100: changes_clone.lock().unwrap()
WLock ==
    /\ Running
    /\ workerPc = "lock"
    /\ changesLock = "none"
    /\ changesLock' = "worker"
    /\ workerPc' = "remove"
    /\ UNCHANGED <<hw, objs, displays, changes, changesPoisoned, signals,
                   inflight, workerChange, received>>
    /\ UNCHANGED appVars
    /\ UNCHANGED logVars

\* Vec::remove(0) taken from the wrong end
RemoveLast(q) == [change |-> q[Len(q)], rest |-> SubSeq(q, 1, Len(q) - 1)]

\* Vec::remove(0) on a non-empty Vec
Remove0(q) == [change |-> Head(q), rest |-> Tail(q)]

\* a worker that keeps the guard of changes while it writes
GuardKept == "worker"

\* display.rs:102: drop(changes), the holder of the Mutex after it
GuardDropped == "none"

\* display.rs:101-102: changes.remove(0) panics on an empty Vec, with the
\* guard alive, which poisons the Mutex; otherwise the guard is dropped
WRemove ==
    /\ Running
    /\ workerPc = "remove"
    /\ IF changes = <<>>
          THEN /\ workerPc' = "panicked"
               /\ changesPoisoned' = TRUE
               /\ changesLock' = "none"
               /\ UNCHANGED <<changes, workerChange>>
          ELSE /\ workerChange' = Remove0(changes).change
               /\ changes' = Remove0(changes).rest
               /\ changesLock' = GuardDropped
               /\ workerPc' = "set"
               /\ UNCHANGED changesPoisoned
    /\ UNCHANGED <<hw, objs, displays, signals, inflight, received>>
    /\ UNCHANGED appVars
    /\ UNCHANGED logVars

\* display.rs:104-106 and 71: the worker calls set, which locks the handle
WSetBegin ==
    /\ Running
    /\ workerPc = "set"
    /\ LET d == workerChange.display
       IN /\ objs[d].locked = "none"
          /\ objs' = [objs EXCEPT ![d].locked = "worker"]
          /\ inflight' = [inflight EXCEPT ![objs[d].handle] = @ \cup {"worker"}]
    /\ setLog' = Append(setLog, workerChange)
    /\ workerPc' = "setting"
    /\ UNCHANGED <<hw, displays, changes, changesLock, changesPoisoned,
                   signals, workerChange, received, cacheLog, pushLog, resLog,
                   appWrites, hwErrors>>
    /\ UNCHANGED appVars

\* display.rs:72: set_vcp_feature(..).unwrap(): an Err panics the worker
\* with the handle's guard alive
WSetEnd(ok) ==
    /\ Running
    /\ workerPc = "setting"
    /\ LET d == workerChange.display
           m == objs[d].handle
           c == workerChange.controller
       IN /\ inflight' = [inflight EXCEPT ![m] = @ \ {"worker"}]
          /\ IF ok
                THEN /\ hw' = [hw EXCEPT ![m][c.kind] = c.value]
                     /\ objs' = Sweep([objs EXCEPT ![d].locked = "none"],
                                      Range(displays) \cup ChangeDisplays(changes)
                                          \cup {rfObj} \cup UiArcs)
                     /\ workerPc' = "recv"
                     /\ resLog' = Append(resLog, "ok")
                     /\ UNCHANGED hwErrors
                ELSE /\ objs' = Sweep([objs EXCEPT ![d].locked = "none",
                                                   ![d].poisoned = TRUE],
                                      Range(displays) \cup ChangeDisplays(changes)
                                          \cup {rfObj} \cup UiArcs)
                     /\ workerPc' = "panicked"
                     /\ resLog' = Append(resLog, "err")
                     /\ hwErrors' = hwErrors + 1
                     /\ UNCHANGED hw
    /\ workerChange' = NoChange
    /\ UNCHANGED <<displays, changes, changesLock, changesPoisoned, signals,
                   received, cacheLog, pushLog, setLog, appWrites>>
    /\ UNCHANGED appVars

(* ---------------------- DisplayManager::refresh ------------------------ *)
\* a refresh that keeps what displays held
NotCleared(ds) == ds

\* display.rs:135: self.displays.clear()
Cleared(ds) == <<>>

\* display.rs:135-136: displays.clear(), then Display::enumerate()
RfClear(found) ==
    /\ appPc = "idle"
    /\ nRefresh < MaxRefresh
    /\ nRefresh' = nRefresh + 1
    /\ displays' = Cleared(displays)
    /\ objs' = Sweep(objs, Range(displays') \cup ChangeDisplays(changes)
                               \cup {workerChange.display} \cup UiArcs)
    /\ rfEnum' = found
    /\ appPc' = "rf_loop"
    /\ UNCHANGED <<hw, changes, changesLock, changesPoisoned, signals,
                   inflight, appArgs, rfObj, rfCtl, nCalls>>
    /\ UNCHANGED workerVars
    /\ rfStart' = [displays |-> displays, found |-> found, objs |-> Len(objs)]
    /\ UNCHANGED <<ctlLock, ui>>
    /\ UNCHANGED logVars

\* display.rs:137-145: MyDisplay::new for the next enumerated display
RfNew ==
    /\ appPc = "rf_loop"
    /\ rfEnum # <<>>
    /\ objs' = Append(objs, MyDisplayNew(Head(rfEnum), Head(rfEnum)))
    /\ rfObj' = Len(objs) + 1
    /\ rfEnum' = Tail(rfEnum)
    /\ rfCtl' = 1
    /\ appPc' = "rf_get"
    /\ UNCHANGED <<hw, displays, changes, changesLock, changesPoisoned,
                   signals, inflight, appArgs, nCalls, nRefresh>>
    /\ UNCHANGED workerVars
    /\ UNCHANGED <<ctlLock, rfStart, ui>>
    /\ UNCHANGED logVars

\* display.rs:59 and 66: load calls get, which locks the handle
RfGetBegin ==
    /\ appPc = "rf_get"
    /\ objs[rfObj].locked = "none"
    /\ objs' = [objs EXCEPT ![rfObj].locked = "app"]
    /\ inflight' = [inflight EXCEPT ![objs[rfObj].handle] = @ \cup {"app"}]
    /\ appPc' = "rf_getting"
    /\ UNCHANGED <<hw, displays, changes, changesLock, changesPoisoned,
                   signals, appArgs, rfEnum, rfObj, rfCtl, nCalls, nRefresh>>
    /\ UNCHANGED workerVars
    /\ UNCHANGED <<ctlLock, rfStart, ui>>
    /\ UNCHANGED logVars

\* display.rs:59-61 and 67: the value the read returns is stored as it is
Loaded(m, k) == hw[m][k]

\* a load that stops after the first control
LoadFirstOnly(i) == "rf_push"

\* display.rs:58: for control in ALL_CONTROLS, where load stands after the
\* i-th control
AfterGet(i) == IF i = Len(ALL_CONTROLS) THEN "rf_push" ELSE "rf_get"

\* display.rs:67 and 60-61: get_vcp_feature(..).unwrap().value() is stored
\* in the Controller; an Err panics the application thread
RfGetEnd(ok) ==
    /\ appPc = "rf_getting"
    /\ LET m == objs[rfObj].handle
           k == ALL_CONTROLS[rfCtl]
       IN /\ inflight' = [inflight EXCEPT ![m] = @ \ {"app"}]
          /\ IF ok
                THEN /\ objs' = [objs EXCEPT ![rfObj].locked = "none",
                                             ![rfObj].controls[k].value = Loaded(m, k),
                                             ![rfObj].loaded[k] = Append(@, Loaded(m, k))]
                     /\ rfCtl' = rfCtl + 1
                     /\ appPc' = AfterGet(rfCtl)
                     /\ UNCHANGED hwErrors
                ELSE /\ objs' = [objs EXCEPT ![rfObj].locked = "none",
                                             ![rfObj].poisoned = TRUE]
                     /\ appPc' = "panicked"
                     /\ hwErrors' = hwErrors + 1
                     /\ UNCHANGED rfCtl
    /\ UNCHANGED <<hw, displays, changes, changesLock, changesPoisoned,
                   signals, appArgs, rfEnum, rfObj, nCalls, nRefresh,
                   cacheLog, pushLog, setLog, resLog, appWrites>>
    /\ UNCHANGED workerVars
    /\ UNCHANGED <<ctlLock, rfStart, ui>>

\* display.rs:149: self.displays.push(Arc::new(display))
RfPush ==
    /\ appPc = "rf_push"
    /\ displays' = Append(displays, rfObj)
    /\ rfObj' = 0
    /\ rfCtl' = 0
    /\ appPc' = "rf_loop"
    /\ UNCHANGED <<hw, objs, changes, changesLock, changesPoisoned, signals,
                   inflight, appArgs, rfEnum, nCalls, nRefresh>>
    /\ UNCHANGED workerVars
    /\ UNCHANGED <<ctlLock, rfStart, ui>>
    /\ UNCHANGED logVars

\* display.rs:151: Ok(())
RfDone ==
    /\ appPc = "rf_loop"
    /\ rfEnum = <<>>
    /\ appPc' = "idle"
    /\ UNCHANGED <<hw, objs, displays, changes, changesLock, changesPoisoned,
                   signals, inflight, appArgs, rfEnum, rfObj, rfCtl, nCalls,
                   nRefresh>>
    /\ UNCHANGED workerVars
    /\ UNCHANGED <<ctlLock, rfStart, ui>>
    /\ UNCHANGED logVars

(* --------------------------- specification ---------------------------- *)
DisplaySet == Range(displays)

AppNext ==
    \/ \E d \in DisplaySet, k \in Control, delta \in Deltas : QcSend(d, k, delta)
    \/ QcCache
    \/ QcLock
    \/ QcPush
    \/ \E found \in Enumerations : RfClear(found)
    \/ RfNew
    \/ RfGetBegin
    \/ \E ok \in BOOLEAN : RfGetEnd(ok)
    \/ RfPush
    \/ RfDone

WorkerNext ==
    \/ WRecv
    \/ WLock
    \/ WRemove
    \/ WSetBegin
    \/ \E ok \in BOOLEAN : WSetEnd(ok)

Next == AppNext \/ WorkerNext

Spec == Init /\ [][Next]_vars

\* liveness: the worker thread is scheduled, and a hardware write it has
\* started returns (with Ok or with Err)
FairSpec == Spec /\ WF_vars(WorkerNext)

(* ------------------------- main.rs: the terminal UI -------------------- *)
\* App::default: step_size: 1
StepSize == 1

\* main.rs:180-181: Left/'a' passes -step_size, Right/'d' passes step_size
KeyDeltas == {-StepSize, StepSize}

\* main.rs:102: max(min(control.value as i16 + value, 100), 0) as u16
AddToControlValue(value, delta) ==
    AsU16(Max(Min(WrapI16(AsI16(value) + delta), MaxValue), 0))

\* Controller::set(value), called at main.rs:103, is not part of
\* display.rs.  It takes the absolute value and returns a Result: the
\* blocking write over the Device's channel (the design's commit), here
\* started on the calling thread.
ControllerSetBegin(d, k, value) ==
    /\ objs[d].locked = "none"
    /\ objs' = [objs EXCEPT ![d].locked = "app"]
    /\ inflight' = [inflight EXCEPT ![objs[d].handle] = @ \cup {"app"}]
    /\ appWrites' = Append(appWrites, Change(d, Controller(k, value)))
    /\ appArgs' = [display |-> d, kind |-> k, value |-> value]

\* main.rs:99-103: the selected control is locked, the clamped value is
\* computed and handed to control.set
AddToControl(d, k, delta) ==
    /\ appPc = "idle"
    /\ nCalls < MaxKeys
    /\ nCalls' = nCalls + 1
    /\ ControllerSetBegin(d, k, AddToControlValue(objs[d].controls[k].value, delta))
    /\ appPc' = "atc_setting"
    /\ UNCHANGED <<hw, displays, changes, changesLock, changesPoisoned,
                   signals, rfEnum, rfObj, rfCtl, nRefresh, cacheLog, pushLog,
                   setLog, resLog, hwErrors>>
    /\ UNCHANGED workerVars
    /\ ctlLock' = ControllerGuard(d, k)
    /\ UNCHANGED <<rfStart, ui>>

\* the write of Controller::set returns: Ok stores the value in the
\* Controller, Err reaches the unwrap of main.rs:103
ControllerSetEnd(ok) ==
    LET d == appArgs.display
        m == objs[d].handle
    IN /\ inflight' = [inflight EXCEPT ![m] = @ \ {"app"}]
       /\ IF ok
             THEN /\ hw' = [hw EXCEPT ![m][appArgs.kind] = appArgs.value]
                  /\ objs' = [objs EXCEPT ![d].locked = "none",
                                          ![d].controls[appArgs.kind].value = appArgs.value]
                  /\ appPc' = "idle"
                  /\ UNCHANGED hwErrors
             ELSE /\ objs' = [objs EXCEPT ![d].locked = "none"]
                  /\ appPc' = "panicked"
                  /\ hwErrors' = hwErrors + 1
                  /\ UNCHANGED hw

\* main.rs:103: control.set(value).unwrap() returns or panics
AddToControlEnd(ok) ==
    /\ appPc = "atc_setting"
    /\ ControllerSetEnd(ok)
    /\ appArgs' = NoArgs
    /\ UNCHANGED <<displays, changes, changesLock, changesPoisoned, signals,
                   rfEnum, rfObj, rfCtl, nCalls, nRefresh, cacheLog, pushLog,
                   setLog, resLog, appWrites>>
    /\ UNCHANGED workerVars
    /\ ctlLock' = NoLock
    /\ UNCHANGED <<rfStart, ui>>

(* ---------------------- main.rs: the key events ------------------------ *)
\* the key codes told apart by run_app: KeyCode::Char(c) is the string c
Digits == {"0", "1", "2", "3"}
Chars == Digits \cup {"q", "r", "?", "w", "s", "a", "d", " ", "x"}
KeyCodes == Chars \cup {"Enter", "Esc", "Up", "Down", "Left", "Right", "Tab"}
KeyKinds == {"Press", "Release"}

\* char.to_digit(10)
ToDigit(c) == CHOOSE n \in 0..3 : ToString(n) = c

\* usize::saturating_sub(1)
SaturatingSub1(n) == Max(n - 1, 0)

\* main.rs:69-77: set_display
SetDisplay(u, desired) ==
    [u EXCEPT !.display_index = IF desired >= Len(displays) THEN 0 ELSE desired]

\* main.rs:79-89: select_control; display_selected is Some at every call
SelectControl(u, desired) ==
    LET i == IF desired >= Len(ALL_CONTROLS) THEN 0 ELSE desired
    IN [u EXCEPT !.control_index = i,
                 !.control_selected =
                     ControllerGuard(u.display_selected, ALL_CONTROLS[i + 1])]

\* main.rs:61-68: select_display
SelectDisplay(u) ==
    IF u.display_index < Len(displays)
       THEN LET d == displays[u.display_index + 1]
            IN [SelectControl([u EXCEPT !.display_selected = d], 0)
                   EXCEPT !.input_mode = InputMode("Selected", d)]
       ELSE u

\* main.rs:91-97: next_control and prev_control
NextControl(u) == SelectControl(u, u.control_index + 1)
PrevControl(u) == SelectControl(u, SaturatingSub1(u.control_index))

\* leaving Selected with the selection kept
KeepSelection(u) == [u EXCEPT !.input_mode = InputMode("Select", 0)]

\* main.rs:182-185: Esc, ' ' or 'q' in Selected
LeaveSelected(u) ==
    [u EXCEPT !.input_mode = InputMode("Select", 0), !.display_selected = 0]

\* main.rs:147-152: a digit selects a display, in every input mode
AfterDigit(u, code) ==
    IF code \in Digits
       THEN SelectDisplay(SetDisplay(u, SaturatingSub1(ToDigit(code))))
       ELSE u

\* main.rs:153-189: the match on input_mode, for the keys that change only
\* the fields of App
Handled(u, code, kind) ==
    CASE u.input_mode.tag = "Help" ->
            IF code \in Chars \cup {"Esc"}
               THEN [u EXCEPT !.show_help = FALSE,
                              !.input_mode = InputMode("Select", 0)]
               ELSE u
      [] u.input_mode.tag = "Select" /\ kind = "Press" ->
            CASE code = "?" ->
                    [u EXCEPT !.input_mode = InputMode("Help", 0),
                              !.show_help = TRUE]
              [] code = "w" -> SetDisplay(u, SaturatingSub1(u.display_index))
              [] code = "s" -> SetDisplay(u, u.display_index + 1)
              [] code \in {"Enter", " "} -> SelectDisplay(u)
              [] OTHER -> u
      [] u.input_mode.tag = "Selected" /\ kind = "Press" ->
            CASE code \in {"Up", "w"} -> PrevControl(u)
              [] code \in {"Down", "s"} -> NextControl(u)
              [] code \in {"Esc", " ", "q"} -> LeaveSelected(u)
              [] OTHER -> u
      [] OTHER -> u

\* the loop of run_app is waiting in event::read
AtRead == ui.at = "run_app" /\ appPc = "idle"

\* the mode in which the match of main.rs:153 sees a pressed key that is
\* no digit
PressedIn(tag) == AtRead /\ ui.input_mode.tag = tag

\* main.rs:111: the refresh of main, before run_app
MainRefresh(found) ==
    /\ ui.at = "main"
    /\ nRefresh = 0
    /\ RfClear(found)

\* main.rs:113-127: no display ends the process, otherwise run_app starts
MainEnter ==
    /\ ui.at = "main"
    /\ nRefresh > 0
    /\ appPc = "idle"
    /\ ui' = [ui EXCEPT !.at = IF Len(displays) = 0 THEN "exited" ELSE "run_app"]
    /\ UNCHANGED <<hw, objs, displays, changes, changesLock, changesPoisoned,
                   signals, inflight, appPc, appArgs, rfEnum, rfObj, rfCtl,
                   nCalls, nRefresh, ctlLock, rfStart>>
    /\ UNCHANGED workerVars
    /\ UNCHANGED logVars

\* main.rs:146-189: a key event that changes only the fields of App
KeyEvent(code, kind) ==
    /\ AtRead
    /\ ~(ui.input_mode.tag = "Select" /\ kind = "Press" /\ code \in {"q", "r"})
    /\ ~(ui.input_mode.tag = "Selected" /\ kind = "Press"
            /\ code \in {"Left", "a", "Right", "d"})
    /\ ui' = Handled(AfterDigit(ui, code), code, kind)
    /\ UNCHANGED <<hw, objs, displays, changes, changesLock, changesPoisoned,
                   signals, inflight, appPc, appArgs, rfEnum, rfObj, rfCtl,
                   nCalls, nRefresh, ctlLock, rfStart>>
    /\ UNCHANGED workerVars
    /\ UNCHANGED logVars

\* main.rs:162-164: 'q' in Select returns from run_app
KeyQuit ==
    /\ PressedIn("Select")
    /\ ui' = [ui EXCEPT !.at = "exited"]
    /\ UNCHANGED <<hw, objs, displays, changes, changesLock, changesPoisoned,
                   signals, inflight, appPc, appArgs, rfEnum, rfObj, rfCtl,
                   nCalls, nRefresh, ctlLock, rfStart>>
    /\ UNCHANGED workerVars
    /\ UNCHANGED logVars

\* main.rs:165-167: 'r' in Select calls refresh
KeyRefresh(found) ==
    /\ PressedIn("Select")
    /\ RfClear(found)

\* main.rs:180-181 and 99-105: Left/'a' and Right/'d' in Selected call
\* add_to_control, which acts on control_selected
KeyAdd(delta) ==
    /\ PressedIn("Selected")
    /\ ui.control_selected # NoLock
    /\ AddToControl(ui.control_selected.display, ui.control_selected.kind, delta)

\* main.rs:108-192: main and the loop of run_app
UiNext ==
    \/ \E found \in Enumerations : MainRefresh(found)
    \/ MainEnter
    \/ \E code \in KeyCodes, kind \in KeyKinds : KeyEvent(code, kind)
    \/ KeyQuit
    \/ \E found \in Enumerations : KeyRefresh(found)
    \/ \E delta \in KeyDeltas : KeyAdd(delta)
    \/ \E ok \in BOOLEAN : AddToControlEnd(ok)
    \/ RfNew
    \/ RfGetBegin
    \/ \E ok \in BOOLEAN : RfGetEnd(ok)
    \/ RfPush
    \/ RfDone

\* the program of main.rs: no key event reaches queue_change
UiSpec == Init /\ [][UiNext]_vars

(* ------------------------------ properties ---------------------------- *)
IsPrefix(s, t) == Len(s) <= Len(t) /\ SubSeq(t, 1, Len(s)) = s

\* the entries of a log that belong to Controller k of display d
OfControl(log, d, k) ==
    SelectSeq(log, LAMBDA c : c.display = d /\ c.controller.kind = k)

ObjIds == 1..Len(objs)

\* the worker has nothing left to do, or can do nothing any more
WorkerIdle == (workerPc = "recv" /\ signals = 0) \/ workerPc = "panicked"

\* every started queue_change call has ended, by returning or by the panic
\* of display.rs:127 on the poisoned Mutex, and the worker has no step left
Settled ==
    \/ appPc = "idle" /\ WorkerIdle
    \/ appPc = "panicked" /\ changesPoisoned

\* C1: once every started queue_change call has ended and the worker has
\* nothing left to do, and no hardware operation returned an error, the values
\* the worker passed to MyDisplay::set for a Controller are the values the
\* calls cached for it, in the same order.
C1_WritesEqualCachedValues ==
    (Settled /\ hwErrors = 0) =>
        \A d \in ObjIds, k \in Control :
            OfControl(setLog, d, k) = OfControl(cacheLog, d, k)

\* C2: the append comes before the signal: the worker never received more
\* notifications than Changes were pushed, and when it is about to remove
\* the head the Vec is not empty.
C2_AppendBeforeSignal ==
    /\ received <= Len(pushLog)
    /\ (workerPc = "remove" => changes # <<>>)

\* C3: the value queue_change stores is clamp(previous + delta, 0, 100)
\* computed over the integers.
C3_ClampOverIntegers ==
    [][(appPc = "qc_cache" /\ appPc' = "qc_lock") =>
        objs'[appArgs.display].controls[appArgs.kind].value =
            IntClamp(objs[appArgs.display].controls[appArgs.kind].value,
                     appArgs.value)]_vars

\* C4: every Controller's cached value lies in [0, 100].
C4_ValueInRange ==
    \A d \in ObjIds, k \in Control :
        objs[d].controls[k].value \in 0..MaxValue

\* C5: when a hardware write of the worker fails, the cached values of the
\* displays that live on stay as they are, and the worker goes back to
\* waiting for the next notification.
C5_FailedWriteKeepsWorker ==
    [][(Len(resLog') > Len(resLog) /\ resLog'[Len(resLog')] = "err") =>
        /\ \A d \in ObjIds :
              ~objs'[d].dropped => objs'[d].controls = objs[d].controls
        /\ workerPc' = "recv"]_vars

\* C6: the hardware writes follow the one global order of the pushes: the
\* set calls made so far are the first pushes, in push order, whatever
\* display they are for.
C6_GlobalFifoOrder == IsPrefix(setLog, pushLog)

\* C6 witness: two writes were issued, the first for monitor m2 and the
\* second for monitor m1, as they were enqueued.
C6_Witness ==
    /\ Len(setLog) >= 2
    /\ objs[setLog[1].display].handle = "m2"
    /\ objs[setLog[2].display].handle = "m1"

\* the Changes the worker has removed from the Vec
Removed == Len(setLog) + (IF workerPc = "set" THEN 1 ELSE 0)

\* C7: every Change is consumed exactly once: the pushes are the writes
\* issued, then the Change the worker holds, then the Vec (none twice, none
\* skipped, none left behind), and the worker removed one Change for every
\* notification it received.
C7_ConsumedExactlyOnce ==
    /\ pushLog = setLog \o (IF workerPc = "set" THEN <<workerChange>> ELSE <<>>)
                        \o changes
    /\ (workerPc \notin {"lock", "remove"} => received = Removed)

\* C8: while the process runs, the n-th Change pushed is eventually written
\* to the hardware or fails there.
C8_EventuallyApplied ==
    \A n \in 1..MaxCalls :
        (Len(pushLog) >= n) ~> (Len(resLog) >= n \/ ~Running)

\* a MyDisplay that some Arc still points to
Alive(d) == ~objs[d].dropped

\* C9: at most one hardware operation is in flight on a monitor's channel,
\* and at most one living MyDisplay holds a handle of it.
C9_ChannelExclusive ==
    \A m \in MonitorSet :
        /\ Cardinality(inflight[m]) <= 1
        /\ Cardinality({d \in ObjIds : Alive(d) /\ objs[d].handle = m}) <= 1

\* C10: no hardware write is issued by the application thread.
C10_OnlyWorkerWrites == appWrites = <<>>

(* ------------------------- the worker's lifetime ----------------------- *)
\* tx_queue is a field of the DisplayManager (display.rs:87), which nothing
\* drops while the application thread runs: until then recv cannot return Err
SenderAlive == Running

\* C11: while the sender is alive the worker thread has not terminated,
\* whatever the interleaving of queue_change calls and wake-ups and whatever
\* the hardware writes return
C11_WorkerNeverExits ==
    SenderAlive => workerPc # "panicked"

(* ------------------------------ refresh -------------------------------- *)
\* the step in which a read of load returns Err to the application thread
LoadFails == appPc = "rf_getting" /\ appPc' # appPc /\ hwErrors' > hwErrors

\* C12: a refresh in which a hardware read of load fails returns to its
\* caller with the failure, and displays then holds what it held when the
\* refresh started.
C12_FailedRefreshKeepsRegistry ==
    [][LoadFails => (appPc' = "idle" /\ displays' = rfStart.displays)]_vars

(* ------------------- queue_change against the worker ------------------- *)
\* the worker has removed a Change and is before or inside its hardware write
WorkerInWrite == workerPc \in {"set", "setting"}

\* C13: while the worker is before or inside a hardware write (which may
\* never return) it does not hold the Mutex of changes, which is neither
\* locked by it nor poisoned, and the application thread's queue_change can
\* take its next step wherever it stands: send, lock the Controller and store,
\* lock changes, push.  The worker holds the Mutex of changes only for the
\* remove, and it never holds a Controller's lock.
C13_EnqueueNeverWaitsForWrite ==
    /\ changesLock = "worker" => workerPc = "remove"
    /\ ctlLock # NoLock => appPc \in {"qc_lock", "qc_push"}
    /\ WorkerInWrite =>
          /\ changesLock # "worker"
          /\ ~changesPoisoned
          /\ (appPc = "idle" /\ nCalls < MaxCalls) =>
                \A d \in DisplaySet, k \in Control, delta \in Deltas :
                    ENABLED QcSend(d, k, delta)
          /\ appPc = "qc_cache" => ENABLED QcCache
          /\ appPc = "qc_lock" => ENABLED QcLock
          /\ appPc = "qc_push" => ENABLED QcPush

\* a second queue_change has run to its end while the worker is inside the
\* first hardware write, which has not returned
C13_Witness ==
    /\ workerPc = "setting"
    /\ Len(setLog) = 1
    /\ resLog = <<>>
    /\ appPc = "idle"
    /\ Len(pushLog) = 2
    /\ signals = 1

(* ----------------------- reading the cached value ---------------------- *)
\* controller.read().unwrap().value on the RwLock of display.rs:77: the
\* value comes from the Controller in memory, no handle is involved
Read(d, k) == objs[d].controls[k].value

\* RwLock::read waits while a write guard of the same Controller is alive
ReadBlocks(d, k) == ctlLock = ControllerGuard(d, k)

\* C14: between two calls of the application thread, which is the thread
\* that reads, no Controller is write-locked and the thread is inside no
\* hardware operation, and a read of a Controller that queue_change has
\* stored into returns the value the latest such call stored, whatever the
\* worker has written since.
C14_ReadYourWrites ==
    appPc = "idle" =>
        /\ \A m \in MonitorSet : "app" \notin inflight[m]
        /\ \A d \in ObjIds, k \in Control :
              Alive(d) =>
                 /\ ~ReadBlocks(d, k)
                 /\ LET stored == OfControl(cacheLog, d, k)
                    IN stored # <<>> =>
                          Read(d, k) = stored[Len(stored)].controller.value

\* a queue_change has returned, the worker has written nothing, and a read
\* returns the stored value, which the monitor does not hold
C14_Witness ==
    /\ appPc = "idle"
    /\ Len(cacheLog) = 1
    /\ setLog = <<>>
    /\ LET c == cacheLog[1]
       IN /\ Read(c.display, c.controller.kind) = c.controller.value
          /\ hw[objs[c.display].handle][c.controller.kind] # c.controller.value

(* ------------------------- what the registry holds --------------------- *)
\* C15: every MyDisplay in displays has had each of its Controllers loaded
\* from the monitor exactly once, and until a queue_change stores into a
\* Controller a read of it returns the value that load read, not the value
\* of construction; the MyDisplay under construction is not in displays.
C15_RegistryDevicesLoaded ==
    /\ rfObj # 0 => rfObj \notin DisplaySet
    /\ \A d \in DisplaySet, k \in Control :
          /\ Len(objs[d].loaded[k]) = 1
          /\ OfControl(cacheLog, d, k) = <<>> => Read(d, k) = objs[d].loaded[k][1]

\* a registered display shows a value of the monitor for both controls
C15_Witness ==
    /\ appPc = "idle"
    /\ cacheLog = <<>>
    /\ \E d \in DisplaySet :
          \A k \in Control : Read(d, k) = hw[objs[d].handle][k] /\ Read(d, k) # 0

\* C16: once a refresh has returned, displays holds one MyDisplay for each
\* display the enumeration of that refresh found, in the order of the
\* enumeration, each constructed during that refresh, and none that displays
\* held when the refresh started; an empty enumeration leaves displays empty.
C16_RefreshReplaces ==
    (appPc = "idle" /\ nRefresh > 0) =>
        /\ Len(displays) = Len(rfStart.found)
        /\ \A i \in 1..Len(displays) :
              /\ objs[displays[i]].handle = rfStart.found[i]
              /\ objs[displays[i]].name = rfStart.found[i]
              /\ displays[i] > rfStart.objs
              /\ displays[i] \notin Range(rfStart.displays)
              /\ \A j \in 1..Len(displays) : displays[j] = displays[i] => j = i

\* a refresh that found no display has emptied a registry that held some
C16_Witness ==
    /\ appPc = "idle"
    /\ nRefresh = 2
    /\ rfStart.displays # <<>>
    /\ rfStart.found = <<>>
    /\ displays = <<>>

(* ------------------------------ the locks ------------------------------ *)
\* the three kinds of lock: the RwLock of a Controller (display.rs:77), the
\* Mutex of changes (86) and the Mutex of a Handle (32), in the order in
\* which a thread may take one while it holds another
LockOrder == <<"controller", "changes", "handle">>

Pos(l) == CHOOSE i \in 1..Len(LockOrder) : LockOrder[i] = l

\* the kinds of lock a thread holds
Holds(t) ==
    (IF t = "app" /\ ctlLock # NoLock THEN {"controller"} ELSE {})
        \cup (IF changesLock = t THEN {"changes"} ELSE {})
        \cup (IF \E d \in ObjIds : objs[d].locked = t THEN {"handle"} ELSE {})

\* the kind of lock a thread is about to take
Wants(t) ==
    IF t = "app"
       THEN CASE appPc = "qc_cache" -> {"controller"}
              [] appPc = "qc_lock" -> {"changes"}
              [] appPc = "rf_get" -> {"handle"}
              [] OTHER -> {}
       ELSE CASE workerPc = "lock" -> {"changes"}
              [] workerPc = "set" -> {"handle"}
              [] OTHER -> {}

\* C17: a thread takes a lock only while it holds locks that come earlier
\* in one fixed order (Controller, changes, Handle), the worker holding none
\* when it takes one; and while the process runs the holder of every lock
\* can take the step that releases it, the hardware operation having
\* returned, or, for the Controller's guard, the step towards that release
\* once the Mutex of changes is free.  So no state has the two threads
\* waiting for each other.
C17_NoDeadlock ==
    /\ \A t \in {"app", "worker"} :
          \A h \in Holds(t), w \in Wants(t) : Pos(h) < Pos(w)
    /\ Wants("worker") # {} => Holds("worker") = {}
    /\ Running =>
          /\ changesLock = "worker" => ENABLED WRemove
          /\ changesLock = "app" => ENABLED QcPush
          /\ \A d \in ObjIds :
                /\ objs[d].locked = "worker" => ENABLED WSetEnd(TRUE)
                /\ objs[d].locked = "app" => ENABLED RfGetEnd(TRUE)
          /\ ctlLock # NoLock =>
                \/ appPc = "qc_push"
                \/ appPc = "qc_lock" /\ (changesLock = "none" => ENABLED QcLock)
                \/ appPc = "qc_lock" /\ changesLock = "worker"

\* the application thread, holding a Controller's guard, waits for the
\* Mutex of changes, which the worker holds
C17_Witness ==
    /\ appPc = "qc_lock"
    /\ ctlLock # NoLock
    /\ changesLock = "worker"
    /\ changes # <<>>

(* --------------------- pending changes and refresh --------------------- *)
\* the Changes pushed and not yet handed to set: the one the worker has
\* removed, then the contents of changes
Pending == (IF workerPc = "set" THEN <<workerChange>> ELSE <<>>) \o changes

\* C18: whatever refreshes have run, the pushed Changes are exactly those
\* handed to set followed by those still pending, in the order and with the
\* values of the push; the MyDisplay of every pending Change is alive and
\* holds the handle of the monitor it was created for, also when displays
\* no longer contains it, and a write in progress is on that monitor.
C18_RefreshKeepsPending ==
    /\ pushLog = setLog \o Pending
    /\ \A i \in 1..Len(Pending) :
          /\ Alive(Pending[i].display)
          /\ Pending[i].display \in ObjIds
    /\ workerPc = "setting" =>
          /\ Alive(workerChange.display)
          /\ "worker" \in inflight[objs[workerChange.display].handle]
          /\ setLog[Len(setLog)] = workerChange

\* a second refresh has returned and the Change at the head of changes,
\* pushed before it, belongs to a MyDisplay that displays no longer holds
C18_Witness ==
    /\ appPc = "idle"
    /\ nRefresh = 2
    /\ changes # <<>>
    /\ changes[1].display \notin DisplaySet
    /\ changes[1].display \in Range(rfStart.displays)
    /\ pushLog[Len(setLog) + 1] = changes[1]

(* --------------------------- the UI's selection ------------------------ *)
\* the positions of the application thread inside refresh
InRefresh == appPc \in {"rf_loop", "rf_get", "rf_getting", "rf_push"}

\* C19: after any sequence of key events display_selected is Some exactly
\* when input_mode is Selected, and then it is the MyDisplay the mode
\* carries, a MyDisplay of displays, and control_selected is the Controller
\* of that MyDisplay at control_index; a refresh runs only in Select mode,
\* with no display selected; and add_to_control writes to a living
\* MyDisplay that displays holds, the one selected.
C19_SelectionMatchesMode ==
    /\ ui.display_selected # 0 <=> ui.input_mode.tag = "Selected"
    /\ ui.input_mode.tag = "Selected" =>
          /\ ui.input_mode.display = ui.display_selected
          /\ ui.display_selected \in DisplaySet
          /\ Alive(ui.display_selected)
          /\ ui.control_selected =
                ControllerGuard(ui.display_selected,
                                ALL_CONTROLS[ui.control_index + 1])
    /\ InRefresh => (ui.input_mode.tag = "Select" /\ ui.display_selected = 0)
    /\ appPc = "atc_setting" =>
          /\ ui.input_mode.tag = "Selected"
          /\ appArgs.display = ui.display_selected
          /\ appArgs.kind = ui.control_selected.kind
          /\ appArgs.display \in DisplaySet
          /\ Alive(appArgs.display)

\* after a refresh asked for with 'r', which replaced a registry that held
\* displays, add_to_control is writing to the second display's CONTRAST
C19_Witness ==
    /\ appPc = "atc_setting"
    /\ nRefresh = 2
    /\ rfStart.displays # <<>>
    /\ Len(displays) = 2
    /\ appArgs.display = displays[2]
    /\ appArgs.kind = "CONTRAST"

==============================================================================
